---- MODULE Spec2Model ----
(***************************************************************************)
(* HarviaClient (src/mcp_server/harvia_api.py): one client object shared   *)
(* by asyncio tasks.  A step of a task is the code between two points      *)
(* where the coroutine really suspends (asyncio.to_thread, session.get,    *)
(* session.post, session.close); the worker threads started by to_thread   *)
(* run pycognito calls that write the shared Cognito object one attribute  *)
(* at a time.  The MCP server (src/mcp_server/server.py) is the client's   *)
(* user: its lifespan connects and closes the client, its tools call the   *)
(* client's methods.                                                       *)
(***************************************************************************)
EXTENDS Integers, Sequences, FiniteSets, TLC

\* ---- bounds -------------------------------------------------------------
MaxCalls == 3          \* public method invocations in one behaviour
MaxExch == 2           \* sign-in / renewal exchanges in one behaviour
MaxDevices == 2        \* children of the first root of the device tree

\* ---- values -------------------------------------------------------------
Tasks == {"t1", "t2"}
Null == "null"
NoObj == "none"
NoEndpoints == {Null}      \* self._endpoints is None
NoTokenData == <<>>       \* self._token_data is None; <<triple>> otherwise
Nothing == <<>>           \* no value returned; <<v>> is the value v
Services == <<"users", "device", "events", "data">>
ServiceNames == {Services[j] : j \in DOMAIN Services}
PrivOps == {"list_devices", "get_device_state", "get_latest_data", "send_state_change"}
Statuses == {"2xx", "non2xx"}
\* a response body: JSON carrying the expected data, JSON without it (a GraphQL
\* `errors` answer, a missing field, an undecodable embedded string), or no JSON
Bodies == {"data", "errors", "nonjson"}
NoTokens == [access_token |-> 0, refresh_token |-> 0, id_token |-> 0]

\* decoded payloads are mappings from keys to values; a value is tagged by
\* where it comes from: "S" the reported state, "T" the telemetry sample,
\* "E" the envelope of the telemetry item.  A deviceId key carried by a
\* payload holds an identifier that is not the device's (-1, -2).
Tagged(keys, tag) == [k \in keys |-> tag]
Override(f, g) ==
    [k \in DOMAIN f \cup DOMAIN g |-> IF k \in DOMAIN g THEN g[k] ELSE f[k]]
WithId(f, id) == Override(f, [k \in {"deviceId"} |-> id])
\* json.loads(...["reported"]) of a shadow (line 138)
StateMaps == {Tagged({"active", "light"}, "S"),
              WithId(Tagged({"active", "light"}, "S"), -1)}
\* json.loads(item["data"]) of the latest telemetry item (line 155)
DataMaps == {WithId(Tagged({"active", "temperature", "timestamp"}, "T"), -2)}

VARIABLES
    session,      \* self._session: "none" (None), "open", "closed" (object kept, closed)
    nOpen,        \* aiohttp sessions created by the client and not closed yet
    endpoints,    \* self._endpoints: NoEndpoints or the set of service names stored
    cognito,      \* self._cognito: NoObj or the task whose Cognito(...) object it is
    cog,          \* the Cognito objects' token attributes, by creating task
    token_data,   \* self._token_data: NoTokenData or <<token triple>>
    exch,         \* the sign-in / renewal exchanges started so far; a token is
                  \* named by the index of the exchange that issued it
    nCalls,       \* public method invocations so far
    afterClose,   \* close() has returned and connect() was not invoked since
    task          \* per task: position, locals and the record of the current call

vars == <<session, nOpen, endpoints, cognito, cog, token_data, exch, nCalls,
          afterClose, task>>

Idle == [pc |-> "idle", op |-> "none", stage |-> "none", client |-> NoObj,
         xid |-> 0, xkind |-> "none", idx |-> 0, nDev |-> 0, devices |-> <<>>,
         token |-> 0, fresh |-> 0, hdr |-> 0, steps |-> <<>>, queries |-> <<>>,
         lastStatus |-> "none", lastBody |-> "none", postRet |-> "none",
         outcome |-> "none", result |-> Nothing, openAtCall |-> FALSE,
         tree |-> "none", state |-> Nothing, merged |-> Nothing,
         life |-> "none", tool |-> "none", phase |-> "none", did |-> 0,
         val |-> 0, rid |-> 0, tstate |-> Nothing, payload |-> Nothing,
         calls |-> <<>>, net0 |-> 0, tret |-> "none"]

Init ==
    /\ session = "none"
    /\ nOpen = 0
    /\ endpoints = NoEndpoints
    /\ cognito = NoObj
    /\ cog = [t \in Tasks |-> NoTokens]
    /\ token_data = NoTokenData
    /\ exch = <<>>
    /\ nCalls = 0
    /\ afterClose = FALSE
    /\ task = [t \in Tasks |-> Idle]

\* ---- helpers ------------------------------------------------------------

\* The call is over: its local variables are gone, the record of what it
\* did (op, queries, last response, outcome, result) stays.
Ended(r, out, res) ==
    [r EXCEPT !.pc = "done", !.outcome = out, !.result = res,
              !.stage = "none", !.client = NoObj, !.xid = 0, !.xkind = "none",
              !.idx = 0, !.nDev = 0, !.devices = <<>>, !.token = 0, !.fresh = 0,
              !.hdr = 0, !.steps = <<>>, !.state = Nothing]

\* An exception leaves the public method: nothing is returned.
\* (RaisedPartial: a list_devices that swallowed the failure and returned the
\* devices fetched so far.)
RaisedPartial(r) ==
    IF r.op = "list_devices"
    THEN Ended(r, "ok", <<r.devices>>)
    ELSE Ended(r, "error", Nothing)

Raised(r) == Ended(r, "error", Nothing)

Returned(r, v) == Ended(r, "ok", <<v>>)

Finish(t, r) == task' = [task EXCEPT ![t] = r]

\* self._session.get / self._session.post works on a live session only
\* (None has no .get/.post, a closed session raises "Session is closed").
\* (AnySession: requests that would go through without a live session.)
AnySession(s) == TRUE

SessionUsable(s) == s = "open"

\* line 68: `if self._token_data is not None: return`
\* (AlwaysSignIn: the guard left out; SignInIfNoCognito: the guard testing
\* self._cognito instead of self._token_data.)
AlwaysSignIn(td, c) == TRUE

SignInIfNoCognito(td, c) == c = NoObj

NeedsSignIn(td, c) == td = NoTokenData

\* line 32: connect() ends with `await self._authenticate()`
\* (ConnectSkipsSignIn: a connect() that leaves the sign-in to the first call.)
ConnectSkipsSignIn == FALSE

ConnectAuthenticates == TRUE

\* close() assigns self._session only; self._token_data is not touched
\* (CloseClearsTokens: a close() that also drops the tokens.)
CloseClearsTokens(td) == NoTokenData

CloseTokenData(td) == td

\* lines 89-90, 96-97: the header is the id_token of the triple stored by
\* _refresh_tokens in this call (`before` is the triple it replaced)
\* (StaleToken: the token read before the renewal check.)
StaleToken(before, after) == IF before = NoTokenData THEN 0 ELSE before[1].id_token

HeaderToken(before, after) == after.id_token

\* endpoint key used by each query (lines 111, 137, 153, 175)
EndpointKey(stage) == IF stage = "data" THEN "data" ELSE "device"

HasKey(eps, k) == k \in eps

AuthEvent(td) == IF td # NoTokenData THEN "authenticated" ELSE "unauthenticated"

CanInvoke(t) == task[t].pc \in {"idle", "done"} /\ nCalls < MaxCalls

NewCall(o) == [Idle EXCEPT !.op = o, !.pc = "run", !.openAtCall = (session = "open")]

\* ---- Cognito sign-in (lines 67-76) ---------------------------------------

\* lines 71 and 82: asyncio.to_thread(...) is called at once; the client has
\* no lock and does not look for an exchange already in progress
\* (SingleFlight: a caller kept waiting while an exchange is in flight.)
SingleFlight(ex) == \A g \in DOMAIN ex : ex[g].st # "flight"

MayStartExchange(ex) == TRUE

\* line 71: asyncio.to_thread(client.authenticate, ...) starts the exchange
StartSignIn(t, r, o) ==
    /\ Len(exch) < MaxExch
    /\ MayStartExchange(exch)
    /\ exch' = Append(exch, [kind |-> "signin", st |-> "flight", by |-> r.op])
    /\ Finish(t, [r EXCEPT !.pc = "signin", !.client = o, !.xkind = "signin",
                           !.xid = Len(exch) + 1])

\* lines 80-81 of _refresh_tokens, holding Cognito object o: _authenticate
\* returns at once when tokens are stored, and check_token is called next
Authenticate(t, r, o) ==
    IF NeedsSignIn(token_data, o)
    THEN StartSignIn(t, r, o)
    ELSE /\ exch' = exch
         /\ Finish(t, [r EXCEPT !.pc = "chk", !.client = o,
                                !.steps = Append(@, AuthEvent(token_data))])

\* _get_cognito line 53: ep = self._endpoints["users"]; then to_thread(Cognito, ...)
GetCognito(r, eps) == IF HasKey(eps, "users") THEN [r EXCEPT !.pc = "ctor"] ELSE Raised(r)

\* lines 78-81 up to the first suspension
RefreshTokens(t, r) ==
    IF cognito = NoObj
    THEN exch' = exch /\ Finish(t, GetCognito(r, endpoints))
    ELSE Authenticate(t, r, cognito)

\* line 32 of connect(): _authenticate (lines 67-71) after discovery stored eps
ConnectAuthenticate(t, r, eps) ==
    IF ~ConnectAuthenticates \/ ~NeedsSignIn(token_data, cognito)
    THEN exch' = exch /\ Finish(t, Returned(r, Null))
    ELSE IF cognito = NoObj
         THEN exch' = exch /\ Finish(t, GetCognito(r, eps))
         ELSE StartSignIn(t, r, cognito)

\* _post line 96: a gateway call begins with _id_token()
Post(t, r, stage, idx) ==
    RefreshTokens(t, [r EXCEPT !.stage = stage, !.idx = idx, !.steps = <<>>,
                               !.token = 0, !.fresh = 0, !.hdr = 0,
                               !.lastStatus = "none", !.lastBody = "none",
                               !.postRet = "none"])

\* lines 97-99: url lookup, then self._session.post(...)
IssuePost(r) ==
    IF HasKey(endpoints, EndpointKey(r.stage)) /\ SessionUsable(session)
    THEN [r EXCEPT !.pc = "post", !.hdr = r.token,
                   !.queries = Append(@, <<r.stage, r.idx>>)]
    ELSE Raised(r)

\* ---- public methods: the code up to the first suspension ----------------

\* connect(), lines 30-31 and the first GET of _fetch_endpoints; r is the
\* record of the new call
ConnectBody(t, r) ==
    /\ session' = "open"
    /\ nOpen' = nOpen + 1
    /\ endpoints' = {}
    /\ afterClose' = FALSE
    /\ Finish(t, [r EXCEPT !.pc = "get", !.idx = 1])
    /\ UNCHANGED <<cognito, cog, token_data, exch>>

Connect(t) ==
    /\ CanInvoke(t)
    /\ nCalls' = nCalls + 1
    /\ ConnectBody(t, NewCall("connect"))

\* line 36: `if self._session and not self._session.closed`
\* (CloseAlways: the session closed without the test.)
CloseAlways(s) == TRUE

CloseNeeded(s) == s = "open"

\* close(), lines 36-37; r is the record of the new call
CloseBody(t, r) ==
    /\ token_data' = CloseTokenData(token_data)
    /\ IF CloseNeeded(session)
       THEN /\ session' = "closed"
            /\ nOpen' = nOpen - 1
            /\ Finish(t, [r EXCEPT !.pc = "closing"])
            /\ UNCHANGED afterClose
       ELSE /\ Finish(t, Returned(r, Null))
            /\ afterClose' = TRUE
            /\ UNCHANGED <<session, nOpen>>
    /\ UNCHANGED <<endpoints, cognito, cog, exch>>

Close(t) ==
    /\ CanInvoke(t)
    /\ nCalls' = nCalls + 1
    /\ CloseBody(t, NewCall("close"))

\* close(), line 38, after session.close() completed
CloseEnd(t) ==
    /\ task[t].pc = "closing"
    /\ session' = "none"
    /\ afterClose' = TRUE
    /\ Finish(t, Returned(task[t], Null))
    /\ UNCHANGED <<nOpen, endpoints, cognito, cog, token_data, exch, nCalls>>

\* _fetch_endpoints() called on its own, lines 43-46
FetchEndpoints(t) ==
    /\ CanInvoke(t)
    /\ nCalls' = nCalls + 1
    /\ endpoints' = {}
    /\ Finish(t, IF SessionUsable(session)
                 THEN [NewCall("fetch_endpoints") EXCEPT !.pc = "get", !.idx = 1]
                 ELSE Raised(NewCall("fetch_endpoints")))
    /\ UNCHANGED <<session, nOpen, cognito, cog, token_data, exch, afterClose>>

FirstStage(o) ==
    CASE o = "list_devices" -> "tree"
      [] o = "get_device_state" -> "state"
      [] o = "get_latest_data" -> "data"
      [] OTHER -> "mutation"

\* list_devices / get_device_state / get_latest_data / send_state_change
Call(t, o) ==
    /\ CanInvoke(t)
    /\ nCalls' = nCalls + 1
    /\ Post(t, NewCall(o), FirstStage(o), 0)
    /\ UNCHANGED <<session, nOpen, endpoints, cognito, cog, token_data, afterClose>>

\* ---- endpoint discovery (lines 44-47) -----------------------------------

\* the GET is answered by a body resp.json() decodes (taken to be the
\* service's descriptor), by a body it does not decode, or not at all
GetResp(t) ==
    /\ task[t].pc = "get"
    /\ \E ans \in {"json", "nonjson", "neterr"} :
         LET r == task[t] IN
         IF ans # "json"
         THEN /\ Finish(t, Raised(r))
              /\ UNCHANGED <<endpoints, exch>>
         ELSE LET eps == endpoints \cup {Services[r.idx]} IN
              /\ endpoints' = eps
              /\ IF r.idx < Len(Services)
                 THEN /\ Finish(t, IF SessionUsable(session)
                                   THEN [r EXCEPT !.idx = r.idx + 1]
                                   ELSE Raised(r))
                      /\ exch' = exch
                 ELSE IF r.op = "fetch_endpoints"
                      THEN Finish(t, Returned(r, Null)) /\ exch' = exch
                      ELSE ConnectAuthenticate(t, r, eps)
    /\ UNCHANGED <<session, nOpen, cognito, cog, token_data, nCalls, afterClose>>

\* ---- worker threads ------------------------------------------------------

\* lines 57-65: Cognito(...) built in a thread, then stored and returned
CtorDone(t) ==
    /\ task[t].pc = "ctor"
    /\ cognito' = t
    /\ cog' = [cog EXCEPT ![t] = NoTokens]
    /\ IF task[t].op = "connect"
       THEN StartSignIn(t, task[t], t)
       ELSE Authenticate(t, task[t], t)
    /\ UNCHANGED <<session, nOpen, endpoints, token_data, nCalls, afterClose>>

\* client.check_token(renew=True) in its thread: it needs an access token,
\* and renews when the token has expired
ChkRun(t) ==
    /\ task[t].pc = "chk"
    /\ LET r == task[t] IN
       IF cog[r.client].access_token = 0
       THEN Finish(t, Raised(r)) /\ exch' = exch
       ELSE \/ /\ Finish(t, [r EXCEPT !.pc = "joined", !.xkind = "renew", !.xid = 0])
               /\ exch' = exch
            \/ /\ Len(exch) < MaxExch
               /\ MayStartExchange(exch)
               /\ exch' = Append(exch, [kind |-> "renew", st |-> "flight", by |-> r.op])
               /\ Finish(t, [r EXCEPT !.pc = "renew", !.xkind = "renew",
                                      !.xid = Len(exch) + 1])
    /\ UNCHANGED <<session, nOpen, endpoints, cognito, cog, token_data, nCalls,
                   afterClose>>

\* the exchange is refused or the network fails: the library call raises
ExchFail(t) ==
    /\ task[t].pc \in {"signin", "renew"}
    /\ exch' = [exch EXCEPT ![task[t].xid].st = "fail"]
    /\ Finish(t, Raised(task[t]))
    /\ UNCHANGED <<session, nOpen, endpoints, cognito, cog, token_data, nCalls,
                   afterClose>>

\* the exchange answers: the library stores the tokens the exchange leaves
\* valid on the Cognito object, one attribute after the other (access token,
\* id token, refresh token), each named by the exchange
ExchOk(t) ==
    /\ task[t].pc \in {"signin", "renew"}
    /\ exch' = [exch EXCEPT ![task[t].xid].st = "ok"]
    /\ cog' = [cog EXCEPT ![task[t].client].access_token = task[t].xid]
    /\ Finish(t, [task[t] EXCEPT !.pc = "w_id"])
    /\ UNCHANGED <<session, nOpen, endpoints, cognito, token_data, nCalls, afterClose>>

WriteId(t) ==
    /\ task[t].pc = "w_id"
    /\ cog' = [cog EXCEPT ![task[t].client].id_token = task[t].xid]
    /\ Finish(t, [task[t] EXCEPT !.pc = "w_rt"])
    /\ UNCHANGED <<session, nOpen, endpoints, cognito, token_data, exch, nCalls,
                   afterClose>>

WriteRt(t) ==
    /\ task[t].pc = "w_rt"
    /\ cog' = [cog EXCEPT ![task[t].client].refresh_token = task[t].xid]
    /\ Finish(t, [task[t] EXCEPT !.pc = "joined"])
    /\ UNCHANGED <<session, nOpen, endpoints, cognito, token_data, exch, nCalls,
                   afterClose>>

\* ---- back on the event loop ---------------------------------------------

\* lines 72-76 (after authenticate) or 82-86, 90, 96-99 (after check_token)
Resume(t) ==
    /\ task[t].pc = "joined"
    /\ LET r == task[t]
           new == cog[r.client]
       IN /\ token_data' = <<new>>
          /\ IF r.xkind = "signin"
             THEN IF r.op = "connect"
                  THEN Finish(t, Returned(r, Null))
                  ELSE Finish(t, [r EXCEPT !.pc = "chk",
                                           !.steps = Append(@, AuthEvent(<<new>>))])
             ELSE Finish(t, IssuePost([r EXCEPT !.steps = Append(@, "check_token"),
                                                !.token = HeaderToken(token_data, new),
                                                !.fresh = new.id_token]))
    /\ UNCHANGED <<session, nOpen, endpoints, cognito, cog, exch, nCalls, afterClose>>

\* get_latest_data lines 156-157: the envelope's timestamp and type are
\* written into the decoded telemetry mapping
LatestData(data) == Override(data, Tagged({"timestamp", "type"}, "E"))

\* list_devices line 121: {**state, **latest, "deviceId": device_id}
\* (MergeStateWins: the two payloads merged the other way round.)
MergeStateWins(state, latest, id) == WithId(Override(latest, state), id)

MergeRecord(state, latest, id) == WithId(Override(state, latest), id)

\* the record of one merge: what went in and what came out
Merge(state, latest, id, rec) ==
    <<[state |-> state, latest |-> latest, id |-> id, rec |-> rec]>>

\* list_devices lines 113-114: `if not tree_data: return []`
\* (NoEmptyCheck: without the test, tree_data[0] fails on the empty tree.)
NoEmptyCheck(r) == Raised([r EXCEPT !.tree = "empty"])

EmptyTree(r) == Returned([r EXCEPT !.tree = "empty"], <<>>)

\* line 100 and the caller's use of the response (lines 112-123, 138,
\* 154-158, 175)
PostResp(t) ==
    /\ task[t].pc = "post"
    /\ LET r == task[t] IN
       \/ /\ Finish(t, Raised([r EXCEPT !.lastStatus = "neterr", !.postRet = "raised"]))
          /\ exch' = exch
       \/ \E s \in Statuses :
            /\ Finish(t, Raised([r EXCEPT !.lastStatus = s, !.lastBody = "nonjson",
                                          !.postRet = "raised"]))
            /\ exch' = exch
       \/ \E s \in Statuses, b \in Bodies \ {"nonjson"} :
            LET r2 == [r EXCEPT !.lastStatus = s, !.lastBody = b, !.postRet = "value"] IN
            CASE r.op = "send_state_change" ->
                   Finish(t, Returned(r2, b)) /\ exch' = exch
              [] r.op = "get_device_state" ->
                   /\ exch' = exch
                   /\ IF b = "data"
                      THEN \E m \in StateMaps : Finish(t, Returned(r2, m))
                      ELSE Finish(t, Raised(r2))
              [] r.op = "get_latest_data" ->
                   /\ exch' = exch
                   /\ IF b = "data"
                      THEN \E d \in DataMaps : Finish(t, Returned(r2, LatestData(d)))
                      ELSE Finish(t, Raised(r2))
              [] OTHER ->
                   IF b # "data"
                   THEN Finish(t, Raised(r2)) /\ exch' = exch
                   ELSE CASE r.stage = "tree" ->
                               \/ Finish(t, EmptyTree(r2)) /\ exch' = exch
                               \/ \E n \in 0..MaxDevices :
                                    LET r3 == [r2 EXCEPT !.tree = "root", !.nDev = n] IN
                                    IF n = 0
                                    THEN Finish(t, Returned(r3, <<>>)) /\ exch' = exch
                                    ELSE Post(t, r3, "state", 1)
                          [] r.stage = "state" ->
                               \E m \in StateMaps :
                                 Post(t, [r2 EXCEPT !.state = <<m>>], "data", r.idx)
                          [] OTHER ->
                               \E d \in DataMaps :
                                 LET latest == LatestData(d)
                                     rec == MergeRecord(r.state[1], latest, r.idx)
                                     r3 == [r2 EXCEPT
                                              !.devices = Append(@, rec["deviceId"]),
                                              !.merged = Merge(r.state[1], latest,
                                                               r.idx, rec)]
                                 IN IF r.idx = r.nDev
                                    THEN Finish(t, Returned(r3, r3.devices))
                                         /\ exch' = exch
                                    ELSE Post(t, r3, "state", r.idx + 1)
    /\ UNCHANGED <<session, nOpen, endpoints, cognito, cog, token_data, nCalls,
                   afterClose>>

\* ---- the MCP server (src/mcp_server/server.py) --------------------------
\* One request at a time is followed through the server: the lifespan opens
\* the client, tools run while it serves, the lifespan closes the client.  A
\* tool runs HarviaClient methods one after the other; when one of them has
\* ended, ToolResume is the tool's code up to its next client call.

TempMin == 104
TempMax == 230
HumMin == 0
HumMax == 140
Temps == {TempMin - 1, TempMin, TempMax, TempMax + 1}
Hums == {HumMin - 1, HumMin, HumMax, HumMax + 1}
Switch == {0, 1}
\* device_id: 0 when omitted (falsy), else the identifier the caller gives
DeviceArgs == {0, 9}
CommandTools == {"turn_sauna_on", "turn_sauna_off", "set_temperature",
                 "toggle_lights", "toggle_steamer", "toggle_fan", "set_humidity"}
Tools == CommandTools \cup {"list_devices", "get_sauna_status"}

ToolValues(tool) ==
    CASE tool = "set_temperature" -> Temps
      [] tool = "set_humidity" -> Hums
      [] tool \in {"toggle_lights", "toggle_steamer", "toggle_fan"} -> Switch
      [] OTHER -> {0}

ToolDevices(tool) == IF tool = "list_devices" THEN {0} ELSE DeviceArgs

\* _f_to_c, line 46: round((fahrenheit - 32) * 5 / 9), for whole degrees
\* above freezing (a ninth is never a tie)
F_to_C(f) == (2 * ((f - 32) * 5) + 9) \div 18

\* the state change each command tool sends (lines 144, 160, 180, 202, 219,
\* 236, 255)
Payload(tool, val) ==
    CASE tool = "turn_sauna_on" -> <<"active", 1>>
      [] tool = "turn_sauna_off" -> <<"active", 0>>
      [] tool = "set_temperature" -> <<"targetTemp", F_to_C(val)>>
      [] tool = "toggle_lights" -> <<"light", val>>
      [] tool = "toggle_steamer" -> <<"steamEn", val>>
      [] tool = "toggle_fan" -> <<"fan", val>>
      [] OTHER -> <<"targetRh", val>>

\* lines 176 and 252: the range tests of set_temperature and set_humidity
\* (RejectsNothing: the tests left out.)
RejectsNothing(tool, val) == FALSE

Rejects(tool, val) ==
    \/ tool = "set_temperature" /\ (val < TempMin \/ val > TempMax)
    \/ tool = "set_humidity" /\ (val < HumMin \/ val > HumMax)

\* `except Exception as e: return {"error": ...}`; list_devices returns the
\* error object inside a list (line 113)
\* (Propagated: the exception leaves the tool.)
Propagated(r) == [r EXCEPT !.tret = "raised"]

ToolError(r) ==
    [r EXCEPT !.tret = IF r.tool = "list_devices" THEN "error_list" ELSE "error"]

ToolOk(r, kind) == [r EXCEPT !.tret = kind]

\* lines 144-145 (and the other command tools): the value send_state_change
\* returns is dropped and {"status": "ok", ...} is returned
\* (MutationNeedsData: a tool that reports ok only for a `data` answer.)
MutationNeedsData(b) == b = "data"

MutationAccepted(b) == TRUE

\* get_sauna_status line 128: {**state, **latest, "deviceId": did}
MergedStatus(state, latest, did) == WithId(Override(state, latest), did)

ToolRunning(r) == r.tool # "none" /\ r.tret = "none"

\* the tool calls a client method: a new call, the tool's own locals kept
InnerCall(r, o) ==
    [NewCall(o) EXCEPT !.life = r.life, !.tool = r.tool, !.phase = r.phase,
                       !.did = r.did, !.val = r.val, !.rid = r.rid,
                       !.tstate = r.tstate, !.payload = r.payload,
                       !.calls = Append(r.calls, o), !.net0 = r.net0]

\* what follows _resolve_device_id: get_sauna_status reads the state (line
\* 126), a command tool sends its state change
AfterResolve(t, r, id) ==
    IF r.tool = "get_sauna_status"
    THEN Post(t, InnerCall([r EXCEPT !.rid = id, !.phase = "state"],
                           "get_device_state"), "state", 0)
    ELSE Post(t, InnerCall([r EXCEPT !.rid = id, !.phase = "mutate",
                                     !.payload = <<Payload(r.tool, r.val)>>],
                           "send_state_change"), "mutation", 0)

\* _resolve_device_id, lines 51-54
ResolveDeviceId(t, r) ==
    IF r.did # 0
    THEN AfterResolve(t, r, r.did)
    ELSE Post(t, InnerCall([r EXCEPT !.phase = "resolve"], "list_devices"), "tree", 0)

\* a tool is called: its code up to the first client call
ToolInvoke(t, tool, did, val) ==
    /\ task[t].life = "serving"
    /\ task[t].pc \in {"idle", "done"}
    /\ ~ToolRunning(task[t])
    /\ nCalls < MaxCalls
    /\ nCalls' = nCalls + 1
    /\ LET r == [Idle EXCEPT !.life = "serving", !.tool = tool, !.did = did,
                             !.val = val, !.net0 = Len(exch)]
       IN CASE tool = "list_devices" ->
                 Post(t, InnerCall([r EXCEPT !.phase = "list"], "list_devices"),
                      "tree", 0)
            [] tool # "list_devices" /\ Rejects(tool, val) ->
                 Finish(t, [r EXCEPT !.tret = "error"]) /\ exch' = exch
            [] OTHER -> ResolveDeviceId(t, r)
    /\ UNCHANGED <<session, nOpen, endpoints, cognito, cog, token_data, afterClose>>

\* the client method the tool awaited has ended: the tool's code up to its
\* next client call or its return
ToolResume(t) ==
    /\ ToolRunning(task[t])
    /\ task[t].pc = "done"
    /\ LET r == task[t] IN
       IF r.outcome = "error"
       THEN Finish(t, ToolError(r)) /\ exch' = exch
       ELSE CASE r.phase = "resolve" ->
                   \* lines 55-57
                   IF r.result[1] = <<>>
                   THEN Finish(t, ToolError(r)) /\ exch' = exch
                   ELSE AfterResolve(t, r, r.result[1][1])
              [] r.phase = "state" ->
                   Post(t, InnerCall([r EXCEPT !.phase = "data", !.tstate = r.result],
                                     "get_latest_data"), "data", 0)
              [] r.phase = "data" ->
                   \* lines 128-129; _format_status fails on a statusCodes
                   \* value without a second digit (line 95)
                   LET rec == MergedStatus(r.tstate[1], r.result[1], r.rid)
                       r2 == [r EXCEPT !.merged = Merge(r.tstate[1], r.result[1],
                                                        r.rid, rec)]
                   IN /\ exch' = exch
                      /\ \E fmt \in BOOLEAN :
                           Finish(t, IF fmt THEN ToolOk(r2, "status") ELSE ToolError(r2))
              [] r.phase = "mutate" ->
                   /\ exch' = exch
                   /\ Finish(t, IF MutationAccepted(r.result[1])
                                THEN ToolOk(r, "ok") ELSE ToolError(r))
              [] OTHER ->
                   \* list_devices, line 111
                   /\ exch' = exch
                   /\ \E fmt \in BOOLEAN :
                        /\ fmt \/ r.result[1] # <<>>
                        /\ Finish(t, IF fmt THEN ToolOk(r, "list") ELSE ToolError(r))
    /\ UNCHANGED <<session, nOpen, endpoints, cognito, cog, token_data, nCalls,
                   afterClose>>

\* _lifespan line 30: `finally: await client.close()`
\* (NoFinally: close() only after the server has served.)
NoFinally == FALSE

FinallyCloses == TRUE

\* _lifespan lines 19-28: the credentials are read from the environment, the
\* client is built and connect() begins
LifespanEnter(t) ==
    /\ task[t].life = "none"
    /\ task[t].pc = "idle"
    /\ \E creds \in BOOLEAN :
         IF creds
         THEN ConnectBody(t, [NewCall("connect") EXCEPT !.life = "start"])
         ELSE /\ Finish(t, [Idle EXCEPT !.life = "nocreds"])
              /\ UNCHANGED <<session, nOpen, endpoints, cognito, cog, token_data,
                             exch, afterClose>>
    /\ UNCHANGED nCalls

\* connect() has ended: the server starts serving (line 29) or, connect()
\* having failed, the finally clause closes the client (line 31)
LifespanYield(t) ==
    /\ task[t].life = "start"
    /\ task[t].pc = "done"
    /\ IF task[t].outcome = "ok"
       THEN /\ Finish(t, [task[t] EXCEPT !.life = "serving"])
            /\ UNCHANGED <<session, nOpen, endpoints, cognito, cog, token_data,
                           exch, afterClose>>
       ELSE IF FinallyCloses
            THEN CloseBody(t, [NewCall("close") EXCEPT !.life = "abort"])
            ELSE /\ Finish(t, [task[t] EXCEPT !.life = "abort"])
                 /\ UNCHANGED <<session, nOpen, endpoints, cognito, cog, token_data,
                                exch, afterClose>>
    /\ UNCHANGED nCalls

\* the server stops: the generator resumes after the yield and the finally
\* clause closes the client
LifespanExit(t) ==
    /\ task[t].life = "serving"
    /\ task[t].pc \in {"idle", "done"}
    /\ ~ToolRunning(task[t])
    /\ CloseBody(t, [NewCall("close") EXCEPT !.life = "stop"])
    /\ UNCHANGED nCalls

\* ---- specifications -------------------------------------------------------

Invocation(t) ==
    \/ Connect(t)
    \/ Close(t)
    \/ FetchEndpoints(t)
    \/ \E o \in PrivOps : Call(t, o)

Step(t) ==
    \/ GetResp(t)
    \/ CloseEnd(t)
    \/ CtorDone(t)
    \/ ChkRun(t)
    \/ ExchFail(t)
    \/ ExchOk(t)
    \/ WriteId(t)
    \/ WriteRt(t)
    \/ Resume(t)
    \/ PostResp(t)

\* any number of callers use the client at once
Next == \E t \in Tasks : Invocation(t) \/ Step(t)

Spec == Init /\ [][Next]_vars

\* a single caller: one call after the other, never two at once
Caller == CHOOSE t \in Tasks : TRUE

NextSeq == Invocation(Caller) \/ Step(Caller)

SpecSeq == Init /\ [][NextSeq]_vars

\* the server: its lifespan and, while it serves, one tool at a time
NextServer ==
    \/ LifespanEnter(Caller)
    \/ LifespanYield(Caller)
    \/ \E tool \in Tools : \E did \in ToolDevices(tool), val \in ToolValues(tool) :
         ToolInvoke(Caller, tool, did, val)
    \/ ToolResume(Caller)
    \/ LifespanExit(Caller)
    \/ Step(Caller)

SpecServer == Init /\ [][NextServer]_vars

\* two callers of the gateway at once, on a client that one of them connects
\* and closes
NextPair ==
    \/ Connect(Caller)
    \/ Close(Caller)
    \/ \E t \in Tasks : Call(t, "send_state_change")
    \/ \E t \in Tasks : Step(t)

SpecPair == Init /\ [][NextPair]_vars

\* ---- claims ---------------------------------------------------------------

SignIns == {g \in DOMAIN exch : exch[g].kind = "signin"}
FailedSignIns == {g \in SignIns : exch[g].st = "fail"}
Over(t) == task[t].pc = "done"

\* C1: the stored credential state is null or a triple whose three tokens were
\* all issued by one sign-in or one renewal exchange, also when two privileged
\* calls run at once on the client.  Stated for the client started as the
\* server starts it: connect() signed in and nothing else did, so that every
\* later exchange is a renewal made by check_token.
SignedInByConnect ==
    /\ SignIns = {1}
    /\ exch[1] = [kind |-> "signin", st |-> "ok", by |-> "connect"]

C1_TripleFromOneExchange ==
    SignedInByConnect =>
        \/ token_data = NoTokenData
        \/ \E g \in DOMAIN exch :
             /\ exch[g].st = "ok"
             /\ token_data[1].access_token = g
             /\ token_data[1].refresh_token = g
             /\ token_data[1].id_token = g

\* C2: outside a running discovery the endpoint directory is unpopulated or
\* holds all four services; a failed GET never leaves a strict subset behind.
C2_DirectoryAllOrNothing ==
    (\A t \in Tasks : task[t].pc # "get")
        => endpoints \in {NoEndpoints, {}, ServiceNames}

\* C3: while a GraphQL POST is in flight, the gateway call that issued it has
\* first made sure tokens are stored and then run the renewal check, in that
\* order, and the authorization header is the id token of the credential state
\* as the renewal check left it.
C3_FreshTokenBeforePost ==
    \A t \in Tasks :
        task[t].pc = "post" =>
            /\ task[t].steps = <<"authenticated", "check_token">>
            /\ task[t].hdr = task[t].fresh

C3_Witness ==
    \E t \in Tasks : \E g \in DOMAIN exch :
        /\ task[t].pc = "post"
        /\ exch[g].kind = "renew"
        /\ exch[g].st = "ok"
        /\ task[t].hdr = g

C5_SignInOnlyInPrivilegedCall ==
    \A g \in DOMAIN exch : exch[g].kind = "signin" => exch[g].by \in PrivOps

\* C5 amended: connect() signs in itself; whenever it has returned normally a
\* credential state is stored.
C5_ConnectSignsIn ==
    \A t \in Tasks :
        (Over(t) /\ task[t].op = "connect" /\ task[t].outcome = "ok")
            => token_data # NoTokenData

C5_Witness ==
    \E t \in Tasks : \E g \in DOMAIN exch :
        /\ Over(t) /\ task[t].op = "connect" /\ task[t].outcome = "ok"
        /\ exch[g] = [kind |-> "signin", st |-> "ok", by |-> "connect"]
        /\ token_data[1].id_token = g

\* C6 as claimed: after close() has returned, and until connect() is invoked
\* again, no token triple is stored.
C6_ClosedClientHasNoTokens == afterClose => token_data = NoTokenData

\* C6 amended: no step of close() changes the stored credential state.
C6_CloseKeepsTokens ==
    [][(\E t \in Tasks : task'[t].op = "close" /\ task'[t] # task[t])
            => token_data' = token_data]_vars

C6_Witness == afterClose /\ session = "none" /\ token_data # NoTokenData

\* C7: a POST answered with a non-2xx status, or with a body that is not
\* JSON, makes _post raise: no response value reaches its caller.
C7_HttpFailureRaises ==
    \A t \in Tasks :
        (task[t].lastStatus = "non2xx" \/ task[t].lastBody = "nonjson")
            => task[t].postRet = "raised"

\* C8: a privileged operation or a discovery invoked while the session is not
\* open ends in an error and returns nothing.
C8_NoResultWithoutSession ==
    \A t \in Tasks :
        (Over(t) /\ task[t].op \in PrivOps \cup {"fetch_endpoints"}
                 /\ ~task[t].openAtCall)
            => (task[t].outcome = "error" /\ task[t].result = Nothing)

C8_Witness ==
    \E t \in Tasks : \E g \in DOMAIN exch :
        /\ afterClose
        /\ Over(t) /\ task[t].op \in PrivOps /\ ~task[t].openAtCall
        /\ task[t].outcome = "error"
        /\ exch[g].kind = "renew" /\ exch[g].st = "ok" /\ exch[g].by = task[t].op

\* C9: a sign-in exchange that fails ends the call in an error with still no
\* credential state stored, and no renewal check or POST ever runs without a
\* stored credential state: the next privileged call signs in again.
C9_FailedSignInStaysUnauthenticated ==
    /\ [](\A t \in Tasks :
            task[t].pc \in {"chk", "renew", "post"} => token_data # NoTokenData)
    /\ [][\A t \in Tasks :
            (task[t].pc = "signin" /\ task'[t].pc = "done")
                => (task'[t].outcome = "error" /\ token_data' = NoTokenData)]_vars

C9_Witness ==
    \E t \in Tasks : \E g \in DOMAIN exch :
        /\ exch[g].kind = "signin" /\ exch[g].st = "fail"
        /\ task[t].pc = "signin" /\ task[t].op \in PrivOps
        /\ task[t].xid > g

\* the queries list_devices makes for n devices: the tree, then state and
\* telemetry of each child in tree order
ExpectedQueries(n) ==
    [j \in 1..(n + n + 1) |->
        IF j = 1 THEN <<"tree", 0>>
        ELSE IF j % 2 = 0 THEN <<"state", j \div 2>> ELSE <<"data", j \div 2>>]

IsPrefix(p, q) == Len(p) <= Len(q) /\ \A j \in DOMAIN p : p[j] = q[j]

\* C10: list_devices queries the tree, then state and telemetry of each device
\* in tree order; it returns the list of all devices or, when any fetch fails,
\* an error and no list.
C10_ListAllOrNothing ==
    \A t \in Tasks :
        task[t].op = "list_devices" =>
            /\ IsPrefix(task[t].queries, ExpectedQueries(MaxDevices))
            /\ (Over(t) /\ task[t].outcome = "error") => task[t].result = Nothing
            /\ (Over(t) /\ task[t].outcome = "ok") =>
                 \E n \in 0..MaxDevices :
                    /\ task[t].queries = ExpectedQueries(n)
                    /\ task[t].result = << [j \in 1..n |-> j] >>

C10_Witness ==
    \E t \in Tasks :
        /\ Over(t) /\ task[t].op = "list_devices" /\ task[t].outcome = "error"
        /\ task[t].result = Nothing
        /\ Len(task[t].queries) > Len(ExpectedQueries(1))

\* C11: when the device tree decodes to an empty value, list_devices returns
\* the empty list, without error, and the tree query is the only query it made.
C11_EmptyTreeGivesEmptyList ==
    \A t \in Tasks :
        (task[t].op = "list_devices" /\ task[t].tree = "empty") =>
            /\ Over(t)
            /\ task[t].outcome = "ok"
            /\ task[t].result = << <<>> >>
            /\ task[t].queries = << <<"tree", 0>> >>

C11_Witness ==
    \E t \in Tasks :
        /\ Over(t) /\ task[t].op = "list_devices" /\ task[t].tree = "empty"
        /\ task[t].lastBody = "data"
        /\ task[t].outcome = "ok"

\* C12: in every merged device record each key of the telemetry mapping holds
\* the telemetry value, also where the reported state has the same key; the
\* keys only the reported state has keep its value; and deviceId is the
\* identifier from the device tree (in get_sauna_status the resolved
\* identifier), whatever deviceId the two payloads carry themselves.
C12_TelemetryWinsIdFromTree ==
    \A t \in Tasks :
        task[t].merged # Nothing =>
            LET m == task[t].merged[1] IN
            /\ DOMAIN m.rec = DOMAIN m.state \cup DOMAIN m.latest \cup {"deviceId"}
            /\ \A k \in DOMAIN m.latest \ {"deviceId"} : m.rec[k] = m.latest[k]
            /\ \A k \in DOMAIN m.state \ (DOMAIN m.latest \cup {"deviceId"}) :
                 m.rec[k] = m.state[k]
            /\ m.rec["deviceId"] = m.id
            /\ IF task[t].op = "list_devices"
               THEN /\ m.id \in 1..MaxDevices
                    /\ \E j \in DOMAIN task[t].queries :
                         task[t].queries[j] = <<"data", m.id>>
               ELSE task[t].tool = "get_sauna_status" /\ m.id = task[t].rid

C12_Witness ==
    \E t \in Tasks :
        /\ task[t].tool = "get_sauna_status" /\ task[t].tret = "status"
        /\ task[t].merged # Nothing
        /\ "deviceId" \in DOMAIN task[t].merged[1].state
        /\ "deviceId" \in DOMAIN task[t].merged[1].latest
        /\ task[t].merged[1].state["active"] # task[t].merged[1].latest["active"]
        /\ task[t].merged[1].rec["deviceId"] = 9

ErrorReturns == {"error", "error_list"}

\* C13: a tool never lets an exception reach its caller, and when a client
\* call it awaited has failed (device resolution, token renewal, POST, a
\* payload that does not decode) or the account has no device, the next thing
\* the tool does is return an error object (list_devices: a list holding it).
C13_ToolsReturnErrorObjects ==
    /\ [](\A t \in Tasks :
            /\ task[t].tret # "raised"
            /\ (task[t].tool # "none" /\ task[t].tret # "none"
                    /\ task[t].outcome = "error")
                 => task[t].tret \in ErrorReturns
            /\ (task[t].tool \notin {"none", "list_devices"} /\ task[t].tret # "none"
                    /\ task[t].op = "list_devices" /\ task[t].result = << <<>> >>)
                 => task[t].tret = "error")
    /\ [][\A t \in Tasks :
            (ToolRunning(task[t]) /\ task[t].pc = "done"
                /\ task[t].outcome = "error" /\ task'[t] # task[t])
                 => task'[t].tret \in ErrorReturns]_vars

C13_Witness ==
    \E t \in Tasks : \E g \in DOMAIN exch :
        /\ task[t].tool \in CommandTools /\ task[t].tret = "error"
        /\ task[t].did = 0
        /\ task[t].op = "send_state_change" /\ task[t].outcome = "error"
        /\ exch[g] = [kind |-> "renew", st |-> "fail", by |-> "send_state_change"]

OutOfRange(tool, val) ==
    \/ tool = "set_temperature" /\ (val < TempMin \/ val > TempMax)
    \/ tool = "set_humidity" /\ (val < HumMin \/ val > HumMax)

\* C14: set_temperature below 104 or above 230 and set_humidity below 0 or
\* above 140 return an error object having called no client method and made
\* no network exchange (no renewal, no listing, no mutation), with or without
\* a device identifier.
C14_RangeCheckedBeforeNetwork ==
    \A t \in Tasks :
        OutOfRange(task[t].tool, task[t].val) =>
            /\ task[t].tret = "error"
            /\ task[t].calls = <<>>
            /\ task[t].op = "none"
            /\ task[t].queries = <<>>
            /\ Len(exch) = task[t].net0

C14_Witness ==
    \E t \in Tasks :
        /\ task[t].tool = "set_temperature"
        /\ task[t].val > TempMax
        /\ task[t].did = 0
        /\ task[t].tret = "error"
        /\ exch # <<>>

\* the server lifetime is over: the lifespan has run to its end
LifeOver(t) == task[t].life \in {"stop", "abort"} /\ task[t].pc = "done"

\* C15: when the server lifetime is over, whether connect() failed in the
\* discovery, failed in the sign-in, or the server served and stopped, close()
\* has run and no session the client opened is still open.
C15_SessionReleasedOnEveryExit ==
    \A t \in Tasks :
        /\ LifeOver(t) =>
             /\ task[t].op = "close"
             /\ session = "none"
             /\ nOpen = 0
        /\ task[t].life = "nocreds" => (session = "none" /\ nOpen = 0)

C15_Witness ==
    \E t \in Tasks : \E g \in DOMAIN exch :
        /\ LifeOver(t)
        /\ task[t].life = "abort"
        /\ exch[g] = [kind |-> "signin", st |-> "fail", by |-> "connect"]
        /\ endpoints = ServiceNames

\* C16: close() called while no session is open (never opened, or closed
\* before) returns normally, releases nothing and leaves the client's state
\* as it was.
C16_CloseIdempotent ==
    [][\A t \in Tasks :
        (nCalls' # nCalls /\ task'[t].op = "close" /\ task'[t].pc # "idle"
            /\ task[t].pc \in {"idle", "done"} /\ session # "open")
          => /\ task'[t].pc = "done"
             /\ task'[t].outcome = "ok"
             /\ UNCHANGED <<session, nOpen, endpoints, cognito, cog, token_data, exch>>]_vars

C16_Witness ==
    \E t \in Tasks :
        /\ Over(t) /\ task[t].op = "close" /\ ~task[t].openAtCall
        /\ task[t].outcome = "ok"
        /\ exch # <<>>
        /\ afterClose
        /\ session = "none"
        /\ nOpen = 0

\* C17: nothing makes a caller wait for an exchange already in progress: a
\* call that is about to sign in or to renew can always start its exchange,
\* so two exchanges of two privileged calls can be in flight at once.
C17_NoCallerWaitsForAnExchange ==
    \A t \in Tasks :
        Len(exch) < MaxExch =>
            /\ task[t].pc = "ctor" => ENABLED CtorDone(t)
            /\ (task[t].pc = "chk" /\ cog[task[t].client].access_token # 0)
                 => ENABLED (ChkRun(t) /\ task'[t].pc = "renew")

C17_Witness ==
    \E t \in Tasks : \E u \in Tasks \ {t} :
        /\ task[t].op \in PrivOps /\ task[u].op \in PrivOps
        /\ task[t].pc \in {"signin", "renew"} /\ task[u].pc \in {"signin", "renew"}
        /\ task[t].xid # task[u].xid
        /\ exch[task[t].xid].st = "flight" /\ exch[task[u].xid].st = "flight"

\* C18: a network exchange (discovery GET, sign-in, renewal, GraphQL POST) is
\* in flight only while the client's HTTP session is open.  Stated for a
\* client that connect() has connected: its first exchange is the sign-in
\* connect() made.
ConnectedClient ==
    /\ exch # <<>>
    /\ exch[1] = [kind |-> "signin", st |-> "ok", by |-> "connect"]

C18_NoExchangeWithoutSession ==
    ConnectedClient =>
        \A t \in Tasks :
            task[t].pc \in {"get", "signin", "renew", "post"} => session = "open"

\* C19: at most one session created by the client is open at any time, and
\* none is open once close() has returned.
C19_AtMostOneSessionOpen ==
    /\ nOpen <= 1
    /\ afterClose => nOpen = 0

\* C20: a command tool returns {"status": "ok"} exactly when the device was
\* resolved and its mutation POST returned a JSON body, whatever the body
\* holds; the mutation is then the tool's only mutation and its last client
\* call (no state read follows).
C20_OkIffMutationReturned ==
    \A t \in Tasks :
        (task[t].tool \in CommandTools /\ task[t].tret # "none") =>
            /\ task[t].tret = "ok" <=>
                 /\ task[t].rid # 0
                 /\ task[t].op = "send_state_change"
                 /\ task[t].postRet = "value"
            /\ task[t].tret = "ok" =>
                 /\ task[t].queries = << <<"mutation", 0>> >>
                 /\ task[t].calls \in {<<"send_state_change">>,
                                       <<"list_devices", "send_state_change">>}
                 /\ task[t].payload = <<Payload(task[t].tool, task[t].val)>>

C20_Witness ==
    \E t \in Tasks :
        /\ task[t].tool = "set_temperature" /\ task[t].tret = "ok"
        /\ task[t].did = 0
        /\ task[t].lastBody = "errors"
        /\ task[t].lastStatus = "non2xx"

====
